---- MODULE Spec2Model ----
(***************************************************************************)
(* Model of PQE369QuantumCircuitGenerator (pqe369_quantum_circuits.py).    *)
(*                                                                         *)
(* A circuit description is a record; a gate is a record                   *)
(*   [gate |-> name, qubits |-> <<indices>>, angle |-> a]                  *)
(* where a = NoAngle for a gate without an "angle" key and a = <<p, q>>    *)
(* for the angle (p / q) * pi, kept as an exact rational multiple of pi.   *)
(* Integers that do not fit a machine word of the checker (the 32-bit seed *)
(* of the data-derived builders) are kept as [hi, lo] 16-bit halves.       *)
(* A call that raises returns no description: its status names the         *)
(* exception and its circuit is None.  samples holds the sizes of the      *)
(* np.random.bytes samples the last call drew, in order.                   *)
(***************************************************************************)
EXTENDS Integers, Sequences, FiniteSets, TLC

VARIABLES call, outcome, circuit, circuits, samples, rng

vars == <<call, outcome, circuit, circuits, samples, rng>>

(***************************************************************************)
(* Bounds of the model.                                                    *)
(***************************************************************************)
MaxLen == 9        \* byte inputs of the randomness / hardening builders: 0..MaxLen bytes
MaxKemLen == 1     \* key and ciphertext samples of the KEM builder: 0..MaxKemLen bytes
MaxTarget == 2     \* target_number ranges over -MaxTarget..MaxTarget and the default
MaxBase == 2       \* base ranges over -1..MaxBase
MaxCircuits == 5   \* num_circuits ranges over 0..MaxCircuits and the default
RngMod == 3        \* number of states of the pseudo-random source
MaxPosition == 23  \* positions 0..MaxPosition of the batch rotation, taken one by one

(***************************************************************************)
(* Helpers.                                                                *)
(***************************************************************************)
Min(a, b) == IF a < b THEN a ELSE b
Max(a, b) == IF a > b THEN a ELSE b
Abs(a) == IF a < 0 THEN -a ELSE a

None == [none |-> TRUE]
NoAngle == <<>>

Gate(g, qs) == [gate |-> g, qubits |-> qs, angle |-> NoAngle]
GateA(g, qs, a) == [gate |-> g, qubits |-> qs, angle |-> a]

\* for i in range(n): gates.append(F(i))
ForRange(n, F(_)) == [k \in 1..n |-> F(k - 1)]

\* for i in range(n): gates.extend(F(i))     (F(i) a sequence of gates)
RECURSIVE Flatten(_)
Flatten(ss) == IF ss = <<>> THEN <<>> ELSE Head(ss) \o Flatten(Tail(ss))

ExtendRange(n, F(_)) == Flatten(ForRange(n, F))

\* Python's a % m for integers: the result has the sign of m; m = 0 raises.
PyMod(a, m) == IF m > 0 THEN a % m ELSE -((-a) % (-m))

\* Python's three-argument pow(b, e, m) for e >= 0 and m # 0.
PyPow(b, e, m) == PyMod(b ^ e, m)

\* circuit[key] = value on a dict
Put(c, key, value) == (key :> value) @@ c

Wide(v) == [hi |-> v \div 65536, lo |-> v % 65536]

(***************************************************************************)
(* hashlib.sha256(data).hexdigest(): 64 hexadecimal digits, a function of  *)
(* the bytes alone.  SHA-256 itself is replaced by a small mixing function *)
(* with the same interface; nothing below depends on which function it is. *)
(***************************************************************************)
RECURSIVE Mix(_, _, _)
Mix(data, lo, hi) ==
    IF lo > hi THEN 0
    ELSE IF lo = hi THEN ((data[lo] + 1) * (lo * lo + 3 * lo + 17)) % 65521
    ELSE LET mid == (lo + hi) \div 2
         IN  (Mix(data, lo, mid) + Mix(data, mid + 1, hi)) % 65521

sha256_hexdigest(data) ==
    LET h == (Mix(data, 1, Len(data)) + 5381 + Len(data)) % 65521
    IN  [k \in 1..64 |-> ((h + 7 * k) * (2 * k + 1)) % 16]

RECURSIVE HexValue(_)
HexValue(ds) == IF ds = <<>> THEN 0 ELSE 16 * HexValue(SubSeq(ds, 1, Len(ds) - 1)) + ds[Len(ds)]

\* the seed read from the last eight hex digits of the digest
SeedOfLastDigits(hexdigest) == [hi |-> HexValue(SubSeq(hexdigest, 57, 60)), lo |-> HexValue(SubSeq(hexdigest, 61, 64))]

\* int(hexdigest[:8], 16)
SeedOf(hexdigest) == [hi |-> HexValue(SubSeq(hexdigest, 1, 4)), lo |-> HexValue(SubSeq(hexdigest, 5, 8))]

(***************************************************************************)
(* numpy's global pseudo-random source.  It is never seeded by the program *)
(* and is shared with every other user of numpy in the process.            *)
(***************************************************************************)
RngStates == 0..(RngMod - 1)
NextRng(r) == (r + 1) % RngMod

\* np.random.randint(0, 1000000)
randint(r) == (r * 48271 + 12345) % 1000000

\* np.random.bytes(k)
random_bytes(r, k) == [j \in 1..k |-> (r * 131 + j * 29 + 7) % 256]

RECURSIVE Draws(_, _)
Draws(r, k) == IF k = 0 THEN {r} ELSE {r} \cup Draws(NextRng(r), k - 1)

\* the states the source can be in after zero or more further draws
Drawn(r) == Draws(r, RngMod)

(***************************************************************************)
(* generate_randomness_test_circuit                                        *)
(***************************************************************************)
\* the qubit count taken modulo 7 instead of 6
RandomnessNumQubitsMod7(data) == Min(5, Max(2, Len(data) % 7))

RandomnessNumQubits(data) == Min(5, Max(2, Len(data) % 6))

\* ciphertext_sample[i % len(ciphertext_sample)] raises ZeroDivisionError on b""
RandomnessRaises(data) == \E i \in 0..(RandomnessNumQubits(data) - 1) : Len(data) = 0

RandomnessPhase(data, i) == GateA("rz", <<i>>, <<2 * data[(i % Len(data)) + 1], 255>>)

\* the closing CX not reversed: CX(0, 2) instead of CX(2, 0)
RandomnessEntangleForward(n) ==
    IF n >= 3 THEN <<Gate("ccx", <<0, 1, 2>>), Gate("cx", <<0, 2>>)>> ELSE <<>>

RandomnessEntangle(n) ==
    IF n >= 3 THEN <<Gate("ccx", <<0, 1, 2>>), Gate("cx", <<2, 0>>)>> ELSE <<>>

RandomnessGates(data) ==
    LET n == RandomnessNumQubits(data)
        H(i) == Gate("h", <<i>>)
        CX(i) == Gate("cx", <<i, i + 1>>)
        RZ(i) == RandomnessPhase(data, i)
        M(i) == Gate("measure", <<i>>)
    IN  ForRange(n, H) \o ForRange(n - 1, CX) \o ForRange(n, RZ)
            \o RandomnessEntangle(n) \o ForRange(n, M)

generate_randomness_test_circuit(data, r) ==
    LET ciphertext_hash == sha256_hexdigest(data)
    IN  IF RandomnessRaises(data)
        THEN [status |-> "ZeroDivisionError", circuit |-> None, rng |-> r]
        ELSE [status |-> "ok",
              circuit |-> [gates |-> RandomnessGates(data),
                           num_qubits |-> RandomnessNumQubits(data),
                           description |-> "PQE-369 Enhanced Randomness Test Circuit",
                           seed |-> SeedOf(ciphertext_hash),
                           ciphertext_hash |-> SubSeq(ciphertext_hash, 1, 16),
                           improvements |-> <<"phase_rotations", "toffoli_entanglement",
                                              "reverse_operations">>],
              rng |-> r]

(***************************************************************************)
(* generate_hardening_test_circuit                                         *)
(***************************************************************************)
\* the qubit count left without its lower clamp
HardeningNumQubitsUnclamped(data) == Min(8, Len(data) % 9)

HardeningNumQubits(data) == Min(8, Max(3, Len(data) % 9))

HardeningReverse(n, i) == Gate("cx", <<(i + 1) % n, i>>)

HardeningGates(data) ==
    LET n == HardeningNumQubits(data)
        H(i) == Gate("h", <<i>>)
        CX(i) == Gate("cx", <<i, i + 1>>)
        CCX(i) == Gate("ccx", <<i, i + 1, i + 2>>)
        RCX(i) == HardeningReverse(n, i)
        M(i) == Gate("measure", <<i>>)
    IN  ForRange(n, H) \o ForRange(n - 1, CX) \o ForRange(n - 2, CCX)
            \o ForRange(n - 1, RCX) \o ForRange(n, M)

\* the seed drawn from the pseudo-random source, as the fixed-structure builders do
generate_hardening_random_seed(data, r) ==
    LET hc_hash == sha256_hexdigest(data)
    IN  [status |-> "ok",
         circuit |-> [gates |-> HardeningGates(data),
                      num_qubits |-> HardeningNumQubits(data),
                      description |-> "PQE-369 Hardening Resistance Test Circuit",
                      seed |-> Wide(randint(r)),
                      hardened_ciphertext_hash |-> SubSeq(hc_hash, 1, 16)],
         rng |-> NextRng(r)]

\* no statement of this builder indexes into the input: b"" raises nothing
generate_hardening_test_circuit(data, r) ==
    LET hc_hash == sha256_hexdigest(data)
    IN  [status |-> "ok",
         circuit |-> [gates |-> HardeningGates(data),
                      num_qubits |-> HardeningNumQubits(data),
                      description |-> "PQE-369 Hardening Resistance Test Circuit",
                      seed |-> SeedOf(hc_hash),
                      hardened_ciphertext_hash |-> SubSeq(hc_hash, 1, 16)],
         rng |-> r]

(***************************************************************************)
(* generate_shors_optimized_circuit                                        *)
(***************************************************************************)
ShorNumQubits == 4

\* the builder failing for target_number = 1 as well
ShorRaisesBelowTwo(target_number, base) ==
    \E i \in 0..(ShorNumQubits - 1) : target_number \in {0, 1}

\* pow(base, exponent, 0) raises ValueError (and x / 0 would raise next)
ShorRaises(target_number, base) == \E i \in 0..(ShorNumQubits - 1) : target_number = 0

\* the controlled rotation emitted without its target qubit
ShorModExpNoTarget(target_number, base, i) ==
    GateA("crz", <<i>>, <<2 * PyPow(base, i + 1, target_number), target_number>>)

\* angle = (pow(base, i + 1, target_number) / target_number) * 2 * pi
ShorModExp(target_number, base, i) ==
    GateA("crz", <<i, ShorNumQubits - 1>>,
          <<2 * PyPow(base, i + 1, target_number), target_number>>)

\* the phase ladder started at j = i instead of j = i + 1
ShorQFTFromSelf(i) ==
    LET CP(k) == GateA("cp", <<i, i + k>>, <<1, 2 ^ k>>)
    IN  <<Gate("h", <<i>>)>> \o ForRange(ShorNumQubits - i, CP)

ShorQFT(i) ==
    LET CP(k) == GateA("cp", <<i, i + 1 + k>>, <<1, 2 ^ (k + 1)>>)
    IN  <<Gate("h", <<i>>)>> \o ForRange(ShorNumQubits - (i + 1), CP)

\* the basis change emitted after the measurement instead of before it
ShorMeasureThenBasis(i) ==
    <<Gate("measure", <<i>>)>> \o (IF i % 2 = 0 THEN <<Gate("h", <<i>>)>> ELSE <<>>)

ShorMeasure(i) ==
    (IF i % 2 = 0 THEN <<Gate("h", <<i>>)>> ELSE <<>>) \o <<Gate("measure", <<i>>)>>

ShorGates(target_number, base) ==
    LET n == ShorNumQubits
        Pre(i) == <<GateA("rz", <<i>>, <<i, n * 8>>), Gate("h", <<i>>)>>
        CRZ(i) == ShorModExp(target_number, base, i)
        Comp(i) == GateA("rz", <<i>>, <<-1, n * 4>>)
    IN  ExtendRange(n, Pre) \o ForRange(n, CRZ) \o ExtendRange(n, ShorQFT)
            \o ForRange(n, Comp) \o ExtendRange(n, ShorMeasure)

generate_shors_optimized_circuit(target_number, base, r) ==
    LET circuit_seed == randint(r)
    IN  IF ShorRaises(target_number, base)
        THEN [status |-> "ValueError", circuit |-> None, rng |-> NextRng(r)]
        ELSE [status |-> "ok",
              circuit |-> [gates |-> ShorGates(target_number, base),
                           num_qubits |-> ShorNumQubits,
                           description |-> "PQE-369 Optimized Shor's Algorithm Circuit",
                           seed |-> Wide(circuit_seed),
                           target_number |-> target_number,
                           base |-> base,
                           algorithm_type |-> "period_finding_optimized",
                           optimization_level |-> "maximum",
                           shots_recommended |-> 8192,
                           improvements |-> <<"phase_pre_rotation", "precision_angle_calc",
                                              "error_compensation", "basis_optimization",
                                              "reduced_depth", "enhanced_precision">>,
                           execution_priority |-> 1,
                           estimated_success_rate |-> <<85, 100>>],
              rng |-> NextRng(r)]

(***************************************************************************)
(* generate_krylov_optimized_circuit                                       *)
(***************************************************************************)
KrylovNumQubits == 3

KrylovMeasure(i) ==
    (IF i = 0 THEN <<Gate("h", <<i>>)>>
     ELSE IF i = 1 THEN <<GateA("rx", <<i>>, <<1, 2>>)>>
     ELSE <<>>) \o <<Gate("measure", <<i>>)>>

KrylovGates ==
    LET n == KrylovNumQubits
        RY3(i) == GateA("ry", <<i>>, <<1, 3>>)
        RY4(i) == GateA("ry", <<i>>, <<1, 4>>)
        CX(i) == Gate("cx", <<i, i + 1>>)
        RZ(i) == GateA("rz", <<i>>, <<i, n>>)
        Corr(i) == GateA("rz", <<i>>, <<-1, n * 2>>)
    IN  ForRange(n, RY3) \o ForRange(n, RY4) \o ForRange(n - 1, CX) \o ForRange(n, RZ)
            \o <<Gate("ccx", <<0, 1, 2>>), Gate("swap", <<0, 2>>)>>
            \o ForRange(n, Corr) \o ExtendRange(n, KrylovMeasure)

generate_krylov_optimized_circuit(r) ==
    LET circuit_seed == randint(r)
    IN  [status |-> "ok",
         circuit |-> [gates |-> KrylovGates,
                      num_qubits |-> KrylovNumQubits,
                      description |-> "PQE-369 Optimized Krylov Methods Circuit",
                      seed |-> Wide(circuit_seed),
                      algorithm_type |-> "linear_algebra_optimized",
                      optimization_level |-> "maximum",
                      shots_recommended |-> 4096,
                      improvements |-> <<"optimized_qubits", "ry_superposition",
                                         "single_step_walk", "error_correction",
                                         "basis_optimization", "reduced_depth",
                                         "enhanced_mixing">>,
                      execution_priority |-> 2,
                      estimated_success_rate |-> <<78, 100>>],
         rng |-> NextRng(r)]

(***************************************************************************)
(* generate_kem_properties_circuit                                         *)
(***************************************************************************)
KemNumQubits == 5

\* combined_data[i % len(combined_data)] raises ZeroDivisionError on b"" + b""
KemRaises(combined_data) == \E i \in 0..(KemNumQubits - 1) : Len(combined_data) = 0

KemPhase(combined_data, i) ==
    GateA("rz", <<i>>, <<combined_data[(i % Len(combined_data)) + 1], 255 * 4>>)

\* the final phase not scaled by 1/255
KemFinalPhaseUnscaled(combined_data, i) ==
    GateA("rz", <<i>>, <<2 * combined_data[((i * 7) % Len(combined_data)) + 1], 1>>)

KemFinalPhase(combined_data, i) ==
    GateA("rz", <<i>>, <<2 * combined_data[((i * 7) % Len(combined_data)) + 1], 255>>)

KemEntangle ==
    <<Gate("cx", <<0, 2>>), Gate("cx", <<1, 3>>), Gate("ccx", <<0, 1, 4>>),
      Gate("cx", <<2, 3>>), Gate("cx", <<3, 2>>)>>

KemGates(combined_data) ==
    LET n == KemNumQubits
        Sup(i) == <<Gate("h", <<i>>), KemPhase(combined_data, i)>>
        Fin(i) == KemFinalPhase(combined_data, i)
        M(i) == (IF i % 2 = 0 THEN <<Gate("h", <<i>>)>> ELSE <<>>)
                    \o <<Gate("measure", <<i>>)>>
    IN  ExtendRange(n, Sup) \o KemEntangle \o ForRange(n, Fin) \o ExtendRange(n, M)

generate_kem_properties_circuit(public_key_sample, ciphertext_sample, r) ==
    LET combined_data == public_key_sample \o ciphertext_sample
        combined_hash == sha256_hexdigest(combined_data)
    IN  IF KemRaises(combined_data)
        THEN [status |-> "ZeroDivisionError", circuit |-> None, rng |-> r]
        ELSE [status |-> "ok",
              circuit |-> [gates |-> KemGates(combined_data),
                           num_qubits |-> KemNumQubits,
                           description |-> "PQE-369 Enhanced KEM Properties Test Circuit",
                           seed |-> SeedOf(combined_hash),
                           combined_hash |-> SubSeq(combined_hash, 1, 16),
                           improvements |-> <<"phase_relationships", "multi_control",
                                              "cross_correlation", "basis_changes">>],
              rng |-> r]

(***************************************************************************)
(* generate_non_commutativity_test_circuit                                 *)
(***************************************************************************)
NonCommNumQubits == 3

NonCommGates ==
    LET n == NonCommNumQubits
        H(i) == Gate("h", <<i>>)
        M(i) == Gate("measure", <<i>>)
    IN  ForRange(n, H)
            \o <<Gate("cx", <<0, 1>>), Gate("cx", <<1, 2>>), Gate("ccx", <<0, 1, 2>>),
                 Gate("cx", <<2, 0>>), Gate("ccx", <<2, 1, 0>>)>>
            \o ForRange(n, M)

generate_non_commutativity_test_circuit(r) ==
    LET circuit_seed == randint(r)
    IN  [status |-> "ok",
         circuit |-> [gates |-> NonCommGates,
                      num_qubits |-> NonCommNumQubits,
                      description |-> "PQE-369 Non-Commutativity Test Circuit",
                      seed |-> Wide(circuit_seed),
                      test_type |-> "non_commutativity"],
         rng |-> NextRng(r)]

(***************************************************************************)
(* generate_superposition_optimized_circuit                                *)
(***************************************************************************)
SuperpositionNumQubits == 3

SuperpositionGates ==
    LET n == SuperpositionNumQubits
        Prep(i) == IF i = 0 THEN GateA("ry", <<i>>, <<1, 2>>)
                   ELSE IF i = 1 THEN GateA("rx", <<i>>, <<1, 2>>)
                   ELSE Gate("h", <<i>>)
        RZ(i) == GateA("rz", <<i>>, <<i * 2, 3>>)
        Mit(i) == GateA("rz", <<i>>, <<-1, n * 3>>)
    IN  ForRange(n, Prep)
            \o <<Gate("cx", <<0, 1>>), Gate("cx", <<1, 2>>)>>
            \o ForRange(n, RZ)
            \o <<GateA("cp", <<0, 1>>, <<1, 4>>), GateA("cp", <<1, 2>>, <<1, 4>>),
                 GateA("cp", <<0, 2>>, <<1, 4>>)>>
            \o ForRange(n, Mit)
            \o <<Gate("h", <<0>>), Gate("measure", <<0>>),
                 GateA("rx", <<1>>, <<1, 2>>), Gate("measure", <<1>>),
                 Gate("measure", <<2>>)>>

generate_superposition_optimized_circuit(r) ==
    LET circuit_seed == randint(r)
    IN  [status |-> "ok",
         circuit |-> [gates |-> SuperpositionGates,
                      num_qubits |-> SuperpositionNumQubits,
                      description |-> "PQE-369 Optimized Superposition Coherence Circuit",
                      seed |-> Wide(circuit_seed),
                      test_type |-> "superposition_optimized",
                      optimization_level |-> "maximum",
                      shots_recommended |-> 8192,
                      improvements |-> <<"ghz_state_preparation", "optimal_phase_angles",
                                         "error_mitigation", "multi_basis_measurement",
                                         "enhanced_interference", "coherence_optimization">>,
                      execution_priority |-> 3,
                      estimated_success_rate |-> <<82, 100>>],
         rng |-> NextRng(r)]

(***************************************************************************)
(* Byte-string literals of the orchestration functions.                    *)
(***************************************************************************)
b_optimized_test == <<111, 112, 116, 105, 109, 105, 122, 101, 100, 95, 116, 101, 115, 116>>
b_key_test == <<107, 101, 121, 95, 116, 101, 115, 116>>
b_ciphertext_test == <<99, 105, 112, 104, 101, 114, 116, 101, 120, 116, 95, 116, 101, 115, 116>>
b_layer1_lwe_test == <<108, 97, 121, 101, 114, 49, 95, 108, 119, 101, 95, 116, 101, 115, 116>>
b_layer2_hardening_test ==
    <<108, 97, 121, 101, 114, 50, 95, 104, 97, 114, 100, 101, 110, 105, 110, 103, 95,
      116, 101, 115, 116>>
b_public_key_test == <<112, 117, 98, 108, 105, 99, 95, 107, 101, 121, 95, 116, 101, 115, 116>>

(***************************************************************************)
(* generate_optimized_quantum_tests (the priority plan)                    *)
(***************************************************************************)
\* the annotation step leaving execution_priority as the builder set it
AnnotateNoPriority(c, priority, shots, time) ==
    Put(Put(c, "shots_recommended", shots), "estimated_time", time)

Annotate(c, priority, shots, time) ==
    Put(Put(Put(c, "execution_priority", priority), "shots_recommended", shots),
        "estimated_time", time)

generate_optimized_quantum_tests(r) ==
    LET s == generate_shors_optimized_circuit(15, 2, r)
        k == generate_krylov_optimized_circuit(s.rng)
        p == generate_superposition_optimized_circuit(k.rng)
        d == generate_randomness_test_circuit(b_optimized_test, p.rng)
        m == generate_kem_properties_circuit(b_key_test, b_ciphertext_test, d.rng)
    IN  [status |-> "ok",
         circuits |-> <<Annotate(s.circuit, 1, 8192, "2-3 minutes"),
                        Annotate(k.circuit, 2, 4096, "1-2 minutes"),
                        Annotate(p.circuit, 3, 8192, "2-3 minutes"),
                        Annotate(d.circuit, 4, 2048, "1 minute"),
                        Annotate(m.circuit, 5, 2048, "1 minute")>>,
         rng |-> m.rng]

(***************************************************************************)
(* generate_pqe369_layer_tests (the layer-mapped plan)                     *)
(***************************************************************************)
\* the layer name written over the description of the circuit
LayerOverDescription(c, layer, name, problem, property) ==
    Put(Put(Put(Put(c, "pqe369_layer", layer), "description", name),
            "mathematical_problem", problem), "security_property", property)

Layer(c, layer, name, problem, property) ==
    Put(Put(Put(Put(c, "pqe369_layer", layer), "layer_name", name),
            "mathematical_problem", problem), "security_property", property)

generate_pqe369_layer_tests(r) ==
    LET a == generate_randomness_test_circuit(b_layer1_lwe_test, r)
        s == generate_shors_optimized_circuit(15, 2, a.rng)
        h == generate_hardening_test_circuit(b_layer2_hardening_test, s.rng)
        k == generate_krylov_optimized_circuit(h.rng)
        p == generate_superposition_optimized_circuit(k.rng)
        m == generate_kem_properties_circuit(b_public_key_test, b_ciphertext_test, p.rng)
    IN  [status |-> "ok",
         circuits |->
            <<Layer(a.circuit, 1, "Learning With Errors (LWE)", "A x s + e = t, find s",
                    "LWE hardness"),
              Layer(s.circuit, 1, "Learning With Errors (LWE)", "Period finding in LWE",
                    "Shor's algorithm resistance"),
              Layer(h.circuit, 2, "Non-Abelian Innovation", "C x M x C^(-1), find M",
                    "Matrix conjugation hardness"),
              Layer(k.circuit, 2, "Non-Abelian Innovation",
                    "Linear algebra in non-abelian space", "Non-commutative properties"),
              Layer(p.circuit, 2, "Non-Abelian Innovation", "Coherence in conjugated space",
                    "Quantum interference resistance"),
              Layer(m.circuit, 3, "Hybrid KEM-DEM System", "Full hybrid encryption security",
                    "CCA security + quantum resistance")>>,
         rng |-> m.rng]

(***************************************************************************)
(* generate_batch_test_circuits (the rotating batch plan)                  *)
(***************************************************************************)
test_types ==
    <<"randomness_enhanced", "hardening", "kem_enhanced", "non_commutativity",
      "shors_enhanced", "krylov_enhanced", "randomness", "superposition_improved">>

DefaultNumCircuits == 12

\* the class defines none of generate_shors_enhanced_circuit,
\* generate_krylov_enhanced_circuit, generate_superposition_improved_circuit:
\* looking one up on self raises AttributeError
Undefined(r) == [status |-> "AttributeError", circuit |-> None, rng |-> r]

\* the KEM key sample drawn with the size of the ciphertext sample
BatchSampleSizeShortKey(test_type) ==
    IF test_type = "randomness_enhanced" THEN <<32>>
    ELSE IF test_type = "hardening" THEN <<64>>
    ELSE IF test_type = "kem_enhanced" THEN <<64, 64>>
    ELSE IF test_type = "randomness" THEN <<16>>
    ELSE <<>>

BatchSampleSize(test_type) ==
    IF test_type = "randomness_enhanced" THEN <<32>>
    ELSE IF test_type = "hardening" THEN <<64>>
    ELSE IF test_type = "kem_enhanced" THEN <<128, 64>>
    ELSE IF test_type = "randomness" THEN <<16>>
    ELSE <<>>

BatchBuild(test_type, r) ==
    LET size == BatchSampleSize(test_type)
    IN  IF test_type = "randomness_enhanced"
        THEN generate_randomness_test_circuit(random_bytes(r, size[1]), NextRng(r))
        ELSE IF test_type = "hardening"
        THEN generate_hardening_test_circuit(random_bytes(r, size[1]), NextRng(r))
        ELSE IF test_type = "kem_enhanced"
        THEN generate_kem_properties_circuit(random_bytes(r, size[1]),
                                             random_bytes(NextRng(r), size[2]),
                                             NextRng(NextRng(r)))
        ELSE IF test_type = "non_commutativity"
        THEN generate_non_commutativity_test_circuit(r)
        ELSE IF test_type = "shors_enhanced" THEN Undefined(r)
        ELSE IF test_type = "krylov_enhanced" THEN Undefined(r)
        ELSE IF test_type = "randomness"
        THEN generate_randomness_test_circuit(random_bytes(r, size[1]), NextRng(r))
        ELSE Undefined(r)

BatchTag(c, i, num_circuits) ==
    Put(Put(Put(c, "batch_id", i + 1), "batch_total", num_circuits),
        "test_generation", "enhanced")

BatchType(i) == test_types[(i % Len(test_types)) + 1]

RECURSIVE BatchLoop(_, _, _, _)
BatchLoop(i, num_circuits, r, acc) ==
    IF i >= num_circuits
    THEN [status |-> "ok", circuits |-> acc, rng |-> r]
    ELSE LET b == BatchBuild(BatchType(i), r)
         IN  IF b.status # "ok"
             THEN [status |-> b.status, circuits |-> <<>>, rng |-> b.rng]
             ELSE BatchLoop(i + 1, num_circuits, b.rng,
                            Append(acc, BatchTag(b.circuit, i, num_circuits)))

\* the sizes of the samples the loop draws, in order, until it ends or raises
RECURSIVE BatchSamples(_, _, _)
BatchSamples(i, num_circuits, r) ==
    IF i >= num_circuits
    THEN <<>>
    ELSE LET b == BatchBuild(BatchType(i), r)
         IN  BatchSampleSize(BatchType(i))
                 \o (IF b.status # "ok" THEN <<>> ELSE BatchSamples(i + 1, num_circuits, b.rng))

generate_batch_test_circuits(num_circuits, r) == BatchLoop(0, num_circuits, r, <<>>)

(***************************************************************************)
(* Inputs.                                                                 *)
(***************************************************************************)
\* two families of byte strings: 0xff repeated, and "abc..." (b"ab" at length 2)
Pattern(p, L) == [j \in 1..L |-> IF p = 0 THEN 255 ELSE 97 + ((j - 1) % 26)]
ByteInputs == {Pattern(p, L) : p \in 0..1, L \in 0..MaxLen}
KemInputs == {Pattern(p, L) : p \in 0..1, L \in 0..MaxKemLen}

DefaultTarget == 15
DefaultBase == 2
Targets == ((-MaxTarget)..MaxTarget) \cup {DefaultTarget}
Bases == ((-1)..MaxBase) \cup {DefaultBase}
BatchCounts == (0..MaxCircuits) \cup {DefaultNumCircuits}

(***************************************************************************)
(* State machine: one action per public method; a step is one call.        *)
(***************************************************************************)
Init ==
    /\ call = [op |-> "init", args |-> <<>>]
    /\ outcome = "none"
    /\ circuit = None
    /\ circuits = <<>>
    /\ samples = <<>>
    /\ rng \in RngStates

\* Every action is one call: it records the call, how it ended and what it
\* returned, and leaves the pseudo-random source where the call left it or
\* anywhere further draws (by any user of the global source) take it.
Randomness ==
    \E data \in ByteInputs :
        LET res == generate_randomness_test_circuit(data, rng)
        IN  /\ call' = [op |-> "randomness", args |-> <<data>>]
            /\ outcome' = res.status
            /\ circuit' = res.circuit
            /\ circuits' = <<>>
            /\ samples' = <<>>
            /\ rng' \in Drawn(res.rng)

Hardening ==
    \E data \in ByteInputs :
        LET res == generate_hardening_test_circuit(data, rng)
        IN  /\ call' = [op |-> "hardening", args |-> <<data>>]
            /\ outcome' = res.status
            /\ circuit' = res.circuit
            /\ circuits' = <<>>
            /\ samples' = <<>>
            /\ rng' \in Drawn(res.rng)

Shor ==
    \E target_number \in Targets, base \in Bases :
        LET res == generate_shors_optimized_circuit(target_number, base, rng)
        IN  /\ call' = [op |-> "shor", args |-> <<target_number, base>>]
            /\ outcome' = res.status
            /\ circuit' = res.circuit
            /\ circuits' = <<>>
            /\ samples' = <<>>
            /\ rng' \in Drawn(res.rng)

Krylov ==
    LET res == generate_krylov_optimized_circuit(rng)
    IN  /\ call' = [op |-> "krylov", args |-> <<>>]
        /\ outcome' = res.status
        /\ circuit' = res.circuit
        /\ circuits' = <<>>
        /\ samples' = <<>>
        /\ rng' \in Drawn(res.rng)

Kem ==
    \E public_key_sample \in KemInputs, ciphertext_sample \in KemInputs :
        LET res == generate_kem_properties_circuit(public_key_sample, ciphertext_sample, rng)
        IN  /\ call' = [op |-> "kem", args |-> <<public_key_sample, ciphertext_sample>>]
            /\ outcome' = res.status
            /\ circuit' = res.circuit
            /\ circuits' = <<>>
            /\ samples' = <<>>
            /\ rng' \in Drawn(res.rng)

NonCommutativity ==
    LET res == generate_non_commutativity_test_circuit(rng)
    IN  /\ call' = [op |-> "non_commutativity", args |-> <<>>]
        /\ outcome' = res.status
        /\ circuit' = res.circuit
        /\ circuits' = <<>>
        /\ samples' = <<>>
        /\ rng' \in Drawn(res.rng)

Superposition ==
    LET res == generate_superposition_optimized_circuit(rng)
    IN  /\ call' = [op |-> "superposition", args |-> <<>>]
        /\ outcome' = res.status
        /\ circuit' = res.circuit
        /\ circuits' = <<>>
        /\ samples' = <<>>
        /\ rng' \in Drawn(res.rng)

OptimizedTests ==
    LET res == generate_optimized_quantum_tests(rng)
    IN  /\ call' = [op |-> "optimized_tests", args |-> <<>>]
        /\ outcome' = res.status
        /\ circuit' = None
        /\ circuits' = res.circuits
        /\ samples' = <<>>
        /\ rng' \in Drawn(res.rng)

LayerTests ==
    LET res == generate_pqe369_layer_tests(rng)
    IN  /\ call' = [op |-> "layer_tests", args |-> <<>>]
        /\ outcome' = res.status
        /\ circuit' = None
        /\ circuits' = res.circuits
        /\ samples' = <<>>
        /\ rng' \in Drawn(res.rng)

Batch ==
    \E num_circuits \in BatchCounts :
        LET res == generate_batch_test_circuits(num_circuits, rng)
        IN  /\ call' = [op |-> "batch", args |-> <<num_circuits>>]
            /\ outcome' = res.status
            /\ circuit' = None
            /\ circuits' = res.circuits
            /\ samples' = BatchSamples(0, num_circuits, rng)
            /\ rng' \in Drawn(res.rng)

Next ==
    \/ Randomness
    \/ Hardening
    \/ Shor
    \/ Krylov
    \/ Kem
    \/ NonCommutativity
    \/ Superposition
    \/ OptimizedTests
    \/ LayerTests
    \/ Batch

Spec == Init /\ [][Next]_vars

(***************************************************************************)
(* The rotation of generate_batch_test_circuits position by position: one  *)
(* step is the branch of the loop body that position i selects (the sample *)
(* it draws and the builder it calls), taken on its own.                   *)
(***************************************************************************)
Positions == 0..MaxPosition

RotationPosition ==
    \E i \in Positions :
        LET b == BatchBuild(BatchType(i), rng)
        IN  /\ call' = [op |-> "batch_position", args |-> <<i>>]
            /\ outcome' = b.status
            /\ circuit' = b.circuit
            /\ circuits' = <<>>
            /\ samples' = BatchSampleSize(BatchType(i))
            /\ rng' \in Drawn(b.rng)

NextRotation == RotationPosition

SpecRotation == Init /\ [][NextRotation]_vars

(***************************************************************************)
(* Vocabulary of the properties.                                           *)
(***************************************************************************)
Builders == {"randomness", "hardening", "shor", "krylov", "kem", "non_commutativity",
             "superposition"}
DataDerived == {"randomness", "hardening", "kem"}

\* the last call was a builder call that returned a description
Returned == outcome = "ok" /\ call.op \in Builders

\* the bytes a data-derived builder digests
InputBytes == IF call.op = "kem" THEN call.args[1] \o call.args[2] ELSE call.args[1]

Clamp(v, lo, hi) == IF v < lo THEN lo ELSE IF v > hi THEN hi ELSE v

GateIndices(c) == 1..Len(c.gates)

\* C1: the randomness builder called with an empty byte sequence ends in
\* InvalidInput and returns no description (never a modulo-by-zero failure).
C1_EmptyRandomnessIsInvalidInput ==
    (call.op = "randomness" /\ call.args[1] = <<>>)
        => (outcome = "InvalidInput" /\ circuit = None)

\* C2: the hardening builder called with an empty byte sequence, and the KEM
\* builder called with a key and ciphertext whose concatenation is empty, each
\* end in InvalidInput and return no description.
C2_EmptyDigestInputIsInvalidInput ==
    (call.op \in {"hardening", "kem"} /\ InputBytes = <<>>)
        => (outcome = "InvalidInput" /\ circuit = None)

\* C3: for every non-empty byte input each data-derived builder returns a
\* description whose num_qubits is clamp(len mod 6, 2, 5) (randomness),
\* clamp(len mod 9, 3, 8) (hardening) or 5 (KEM), and every qubit index of
\* every gate is >= 0 and < num_qubits.
C3_QubitCountAndIndexRange ==
    (call.op \in DataDerived /\ InputBytes # <<>>) =>
        /\ outcome = "ok"
        /\ call.op = "randomness" =>
              /\ circuit.num_qubits = Clamp(Len(InputBytes) % 6, 2, 5)
              /\ circuit.num_qubits \in 2..5
        /\ call.op = "hardening" =>
              /\ circuit.num_qubits = Clamp(Len(InputBytes) % 9, 3, 8)
              /\ circuit.num_qubits \in 3..8
        /\ call.op = "kem" => circuit.num_qubits = 5
        /\ \A k \in GateIndices(circuit) :
              \A j \in 1..Len(circuit.gates[k].qubits) :
                  /\ circuit.gates[k].qubits[j] >= 0
                  /\ circuit.gates[k].qubits[j] < circuit.num_qubits

\* a hardening circuit on the widest register: its last Toffoli reaches qubit 7
C3_Witness ==
    /\ Returned
    /\ call.op = "hardening"
    /\ Len(call.args[1]) = 8
    /\ circuit.num_qubits = 8
    /\ \E k \in GateIndices(circuit) : circuit.gates[k].qubits = <<5, 6, 7>>

GateArity(g) ==
    IF g = "ccx" THEN 3
    ELSE IF g \in {"cx", "cp", "crz", "swap"} THEN 2
    ELSE IF g \in {"h", "x", "rz", "rx", "ry", "measure"} THEN 1
    ELSE 0

\* C4: in every description returned by any of the seven builders each gate's
\* qubit list has the length of the gate's arity (3 for ccx; 2 for cx, cp, crz,
\* swap; 1 for h, x, rz, rx, ry, measure) and every gate name is of that
\* vocabulary.
C4_GateArity ==
    Returned =>
        \A k \in GateIndices(circuit) :
            /\ GateArity(circuit.gates[k].gate) > 0
            /\ Len(circuit.gates[k].qubits) = GateArity(circuit.gates[k].gate)

\* a Shor circuit: it holds one-, two-qubit (crz, cp) gates and measurements
C4_Witness ==
    /\ Returned
    /\ call.op = "shor"
    /\ \E k \in GateIndices(circuit) : circuit.gates[k].gate = "crz"
    /\ \E k \in GateIndices(circuit) : circuit.gates[k].gate = "cp"

\* the same call made again when the pseudo-random source is in state r
Rerun(r) ==
    IF call.op = "randomness" THEN generate_randomness_test_circuit(call.args[1], r)
    ELSE IF call.op = "hardening" THEN generate_hardening_test_circuit(call.args[1], r)
    ELSE IF call.op = "kem"
    THEN generate_kem_properties_circuit(call.args[1], call.args[2], r)
    ELSE IF call.op = "shor"
    THEN generate_shors_optimized_circuit(call.args[1], call.args[2], r)
    ELSE IF call.op = "krylov" THEN generate_krylov_optimized_circuit(r)
    ELSE IF call.op = "non_commutativity" THEN generate_non_commutativity_test_circuit(r)
    ELSE generate_superposition_optimized_circuit(r)

HashFragment(c) ==
    IF call.op = "randomness" THEN c.ciphertext_hash
    ELSE IF call.op = "hardening" THEN c.hardened_ciphertext_hash
    ELSE c.combined_hash

\* C5: determinism.  The description a builder call returned and the one the
\* same call (same builder, same inputs) returns in any state of the
\* pseudo-random source have identical gate lists; for the data-derived
\* builders also identical num_qubits, seed and hash fragment.
C5_Determinism ==
    Returned =>
        \A r \in RngStates :
            /\ Rerun(r).status = "ok"
            /\ Rerun(r).circuit.gates = circuit.gates
            /\ call.op \in DataDerived =>
                  /\ Rerun(r).circuit.num_qubits = circuit.num_qubits
                  /\ Rerun(r).circuit.seed = circuit.seed
                  /\ HashFragment(Rerun(r).circuit) = HashFragment(circuit)

\* a Shor call whose seed field differs from the seed of the same call made
\* in another state of the source
C5_Witness ==
    /\ Returned
    /\ call.op = "shor"
    /\ call.args = <<DefaultTarget, DefaultBase>>
    /\ \E r \in RngStates : Rerun(r).circuit.seed # circuit.seed

\* C6: every gate that carries an angle, in every description returned by any
\* builder, has an angle in [-2*pi, 2*pi]: with the angle (p / q) * pi,
\* |p| <= 2 * |q|.
C6_AngleRange ==
    Returned =>
        \A k \in GateIndices(circuit) :
            circuit.gates[k].angle # NoAngle =>
                /\ circuit.gates[k].angle[2] # 0
                /\ Abs(circuit.gates[k].angle[1]) <= 2 * Abs(circuit.gates[k].angle[2])

\* a phase rotation by exactly 2*pi (byte 255)
C6_Witness ==
    /\ Returned
    /\ call.op = "randomness"
    /\ \E k \in GateIndices(circuit) : circuit.gates[k].angle = <<510, 255>>

\* C7 as stated: the Shor builder returns a description for every pair of
\* non-negative integers (target_number, base), target_number = 0 included.
C7_ShorAcceptsEveryNonNegativePair ==
    (call.op = "shor" /\ call.args[1] >= 0 /\ call.args[2] >= 0)
        => (outcome = "ok" /\ circuit # None)

\* C7 amended: the Shor builder returns a description for every pair of
\* non-negative integers with target_number >= 1 (target_number = 1 included);
\* with target_number = 0 it raises ValueError and returns none.
C7_ShorAcceptsEveryPositiveTarget ==
    (call.op = "shor" /\ call.args[1] >= 0 /\ call.args[2] >= 0) =>
        /\ call.args[1] >= 1 => (outcome = "ok" /\ circuit # None
                                    /\ circuit.num_qubits = ShorNumQubits)
        /\ call.args[1] = 0 => (outcome = "ValueError" /\ circuit = None)

C7_Witness ==
    /\ call.op = "shor"
    /\ call.args = <<1, 0>>
    /\ outcome = "ok"
    /\ circuit.target_number = 1

\* the description string of the builder a test type selects
BatchDescription(test_type) ==
    IF test_type \in {"randomness_enhanced", "randomness"}
    THEN "PQE-369 Enhanced Randomness Test Circuit"
    ELSE IF test_type = "hardening" THEN "PQE-369 Hardening Resistance Test Circuit"
    ELSE IF test_type = "kem_enhanced" THEN "PQE-369 Enhanced KEM Properties Test Circuit"
    ELSE IF test_type = "non_commutativity" THEN "PQE-369 Non-Commutativity Test Circuit"
    ELSE "no builder"

\* C8: the rotating batch plan called with any count N >= 0 (the default 12
\* included) returns a list of exactly N descriptions; position i (0-based)
\* was produced by the builder for test type i mod 8 and carries
\* batch_id = i + 1 and batch_total = N.
C8_BatchReturnsNDescriptions ==
    call.op = "batch" =>
        /\ outcome = "ok"
        /\ Len(circuits) = call.args[1]
        /\ \A i \in 0..(Len(circuits) - 1) :
              /\ circuits[i + 1].description = BatchDescription(BatchType(i))
              /\ circuits[i + 1].batch_id = i + 1
              /\ circuits[i + 1].batch_total = call.args[1]

\* C9: the priority plan returns exactly five descriptions in the order Shor,
\* Krylov, superposition, randomness (of the fixed sample), KEM (of the fixed
\* samples); position k carries execution_priority = k, shots_recommended
\* 8192, 4096, 8192, 2048, 2048 in order, and an estimated_time.
C9_PriorityPlan ==
    call.op = "optimized_tests" =>
        /\ outcome = "ok"
        /\ Len(circuits) = 5
        /\ [k \in 1..5 |-> circuits[k].description] =
              <<"PQE-369 Optimized Shor's Algorithm Circuit",
                "PQE-369 Optimized Krylov Methods Circuit",
                "PQE-369 Optimized Superposition Coherence Circuit",
                "PQE-369 Enhanced Randomness Test Circuit",
                "PQE-369 Enhanced KEM Properties Test Circuit">>
        /\ \A k \in 1..5 :
              /\ {"execution_priority", "shots_recommended", "estimated_time"}
                    \subseteq DOMAIN circuits[k]
              /\ circuits[k].execution_priority = k
              /\ circuits[k].shots_recommended = <<8192, 4096, 8192, 2048, 2048>>[k]
        /\ \A k \in 1..4 :
              circuits[k].execution_priority < circuits[k + 1].execution_priority
        /\ circuits[4].ciphertext_hash = SubSeq(sha256_hexdigest(b_optimized_test), 1, 16)
        /\ circuits[5].combined_hash =
              SubSeq(sha256_hexdigest(b_key_test \o b_ciphertext_test), 1, 16)

C9_Witness ==
    /\ call.op = "optimized_tests"
    /\ outcome = "ok"
    /\ Len(circuits) = 5
    /\ circuits[5].execution_priority = 5

\* C10: for every non-empty input, with n = clamp(len mod 6, 2, 5), the
\* randomness builder's gate list is, in order: n Hadamards on qubits 0..n-1,
\* the n-1 chain gates CX(i, i+1), n rz rotations (one per qubit), then
\* Toffoli(0,1,2) and CX(2,0) if and only if n >= 3, then n measurements; for
\* b"ab" that is 7 gates and no Toffoli.
C10_RandomnessGateList ==
    (call.op = "randomness" /\ call.args[1] # <<>>) =>
        LET n == Clamp(Len(call.args[1]) % 6, 2, 5)
            e == IF n >= 3 THEN 2 ELSE 0
            g == circuit.gates
        IN  /\ outcome = "ok"
            /\ Len(g) = n + (n - 1) + n + e + n
            /\ \A i \in 0..(n - 1) : g[i + 1].gate = "h" /\ g[i + 1].qubits = <<i>>
            /\ \A i \in 0..(n - 2) : g[n + i + 1].gate = "cx" /\ g[n + i + 1].qubits = <<i, i + 1>>
            /\ \A i \in 0..(n - 1) :
                  /\ g[2 * n + i].gate = "rz"
                  /\ g[2 * n + i].qubits = <<i>>
                  /\ g[2 * n + i].angle # NoAngle
            /\ n >= 3 =>
                  /\ g[3 * n].gate = "ccx" /\ g[3 * n].qubits = <<0, 1, 2>>
                  /\ g[3 * n + 1].gate = "cx" /\ g[3 * n + 1].qubits = <<2, 0>>
            /\ (\E k \in 1..Len(g) : g[k].gate = "ccx") <=> n >= 3
            /\ \A i \in 0..(n - 1) :
                  /\ g[3 * n + e + i].gate = "measure"
                  /\ g[3 * n + e + i].qubits = <<i>>
            /\ call.args[1] = <<97, 98>> =>
                  /\ Len(g) = 7
                  /\ [k \in 1..7 |-> g[k].gate] = <<"h", "h", "cx", "rz", "rz", "measure", "measure">>
                  /\ g[3].qubits = <<0, 1>>

\* the b"ab" call has returned its 7 gates
C10_Witness ==
    /\ call.op = "randomness"
    /\ outcome = "ok"
    /\ call.args[1] = <<97, 98>>
    /\ Len(circuit.gates) = 7

CountGates(c, g) == Cardinality({k \in GateIndices(c) : c.gates[k].gate = g})

\* C11: whenever the Shor builder returns, num_qubits = 4 and the gate list
\* has 32 gates (8 pre-rotation/Hadamard, 4 crz, 4 Hadamard plus 6 cp of the
\* ladder, 4 compensation rz, 2 basis-change Hadamards, 4 measurements); the
\* length is the same in every state of the pseudo-random source and for every
\* target_number and base.
C11_ShorFixedShape ==
    (Returned /\ call.op = "shor") =>
        /\ circuit.num_qubits = 4
        /\ Len(circuit.gates) = 32
        /\ CountGates(circuit, "rz") = 4 + 4
        /\ CountGates(circuit, "h") = 4 + 4 + 2
        /\ CountGates(circuit, "crz") = 4
        /\ CountGates(circuit, "cp") = 6
        /\ CountGates(circuit, "measure") = 4
        /\ \A r \in RngStates : Len(Rerun(r).circuit.gates) = Len(circuit.gates)

\* a call with arguments other than (15, 2) has returned its 32 gates
C11_Witness ==
    /\ Returned
    /\ call.op = "shor"
    /\ call.args = <<1, 0>>
    /\ Len(circuit.gates) = 32

RandomnessDescription == "PQE-369 Enhanced Randomness Test Circuit"
HardeningDescription == "PQE-369 Hardening Resistance Test Circuit"
KemDescription == "PQE-369 Enhanced KEM Properties Test Circuit"

\* the position's branch built a circuit with description d
Built(d) == call.op = "batch_position" /\ outcome = "ok" /\ circuit.description = d

\* the position's branch is not data-driven: it called a builder without
\* input bytes, or a method the class does not define
NotDataDriven ==
    /\ call.op = "batch_position"
    /\ outcome = "ok" => circuit.description
                            \notin {RandomnessDescription, HardeningDescription, KemDescription}

C13_HashFragmentAndSeed ==
    (Returned /\ call.op \in DataDerived) =>
        LET digest == sha256_hexdigest(InputBytes)
            fragment == HashFragment(circuit)
        IN  /\ Len(digest) = 64
            /\ Len(fragment) = 16
            /\ \A k \in 1..16 : fragment[k] = digest[k] /\ fragment[k] \in 0..15
            /\ circuit.seed = [hi |-> HexValue(SubSeq(fragment, 1, 4)),
                               lo |-> HexValue(SubSeq(fragment, 5, 8))]
            /\ circuit.seed.hi \in 0..65535
            /\ circuit.seed.lo \in 0..65535

\* the KEM builder has returned for a key and a ciphertext whose order
\* matters to the digest, with a seed that is not zero
C13_Witness ==
    /\ Returned
    /\ call.op = "kem"
    /\ call.args[1] # <<>>
    /\ call.args[2] # <<>>
    /\ sha256_hexdigest(call.args[1] \o call.args[2]) # sha256_hexdigest(call.args[2] \o call.args[1])
    /\ circuit.combined_hash = SubSeq(sha256_hexdigest(call.args[1] \o call.args[2]), 1, 16)
    /\ circuit.seed.hi > 0

QubitsOf(g) == {g.qubits[k] : k \in 1..Len(g.qubits)}

\* the position of the first measure gate of c (0 when there is none)
FirstMeasure(c) ==
    LET ms == {k \in GateIndices(c) : c.gates[k].gate = "measure"}
    IN  IF ms = {} THEN 0 ELSE CHOOSE k \in ms : \A j \in ms : k <= j

\* a change of measurement basis: h, or rx by pi/2
BasisChange(g) ==
    \/ g.gate = "h"
    \/ g.gate = "rx" /\ g.angle = <<1, 2>>

\* C14: whenever a builder returns, every qubit 0..num_qubits-1 has exactly
\* one measure gate, no gate later in the list acts on a qubit already
\* measured, and every gate that is not a measure and comes after the first
\* measure is a basis change (h, or rx by pi/2) on one qubit, immediately
\* followed by the measure of that qubit.
C14_MeasurementIsFinal ==
    Returned =>
        LET g == circuit.gates
            first == FirstMeasure(circuit)
        IN  /\ first > 0
            /\ \A q \in 0..(circuit.num_qubits - 1) :
                  Cardinality({k \in GateIndices(circuit) : g[k] = Gate("measure", <<q>>)}) = 1
            /\ CountGates(circuit, "measure") = circuit.num_qubits
            /\ \A k \in GateIndices(circuit) :
                  g[k].gate = "measure" =>
                      \A j \in GateIndices(circuit) :
                          j > k => QubitsOf(g[j]) \cap QubitsOf(g[k]) = {}
            /\ \A k \in GateIndices(circuit) :
                  (k > first /\ g[k].gate # "measure") =>
                      /\ BasisChange(g[k])
                      /\ Len(g[k].qubits) = 1
                      /\ k < Len(g)
                      /\ g[k + 1] = Gate("measure", g[k].qubits)

\* the Krylov builder has returned with both kinds of basis change inside its
\* measurement phase: rx by pi/2 on qubit 1 after the measure of qubit 0
C14_Witness ==
    /\ Returned
    /\ call.op = "krylov"
    /\ \E k \in GateIndices(circuit) :
          /\ k > FirstMeasure(circuit)
          /\ circuit.gates[k] = GateA("rx", <<1>>, <<1, 2>>)
          /\ circuit.gates[k + 1] = Gate("measure", <<1>>)
    /\ circuit.gates[FirstMeasure(circuit) - 1] = Gate("h", <<0>>)

Plans == {"optimized_tests", "layer_tests", "batch"}

AnnotationKeys ==
    {"execution_priority", "shots_recommended", "estimated_time", "pqe369_layer",
     "layer_name", "mathematical_problem", "security_property", "batch_id",
     "batch_total", "test_generation"}

\* what the builder of position i of the last plan call returns when the
\* pseudo-random source is in state r
PlanBuilt(i, r) ==
    IF call.op = "optimized_tests"
    THEN (IF i = 1 THEN generate_shors_optimized_circuit(15, 2, r)
          ELSE IF i = 2 THEN generate_krylov_optimized_circuit(r)
          ELSE IF i = 3 THEN generate_superposition_optimized_circuit(r)
          ELSE IF i = 4 THEN generate_randomness_test_circuit(b_optimized_test, r)
          ELSE generate_kem_properties_circuit(b_key_test, b_ciphertext_test, r))
    ELSE IF call.op = "layer_tests"
    THEN (IF i = 1 THEN generate_randomness_test_circuit(b_layer1_lwe_test, r)
          ELSE IF i = 2 THEN generate_shors_optimized_circuit(15, 2, r)
          ELSE IF i = 3 THEN generate_hardening_test_circuit(b_layer2_hardening_test, r)
          ELSE IF i = 4 THEN generate_krylov_optimized_circuit(r)
          ELSE IF i = 5 THEN generate_superposition_optimized_circuit(r)
          ELSE generate_kem_properties_circuit(b_public_key_test, b_ciphertext_test, r))
    ELSE BatchBuild(BatchType(i - 1), r)

\* description d is description b with nothing but annotation keys added or
\* overwritten
OnlyAnnotated(d, b) ==
    /\ d.gates = b.gates
    /\ d.num_qubits = b.num_qubits
    /\ DOMAIN b \subseteq DOMAIN d
    /\ (DOMAIN d \ DOMAIN b) \subseteq AnnotationKeys
    /\ \A key \in DOMAIN b \ AnnotationKeys : d[key] = b[key]

\* C15: whenever one of the three plans returns, every description of its
\* output has exactly the gates and num_qubits its builder returned for the
\* same inputs, and differs from the builder's description only in the
\* annotation keys.
C15_PlansLeaveGatesUnchanged ==
    (call.op \in Plans /\ outcome = "ok") =>
        \A i \in 1..Len(circuits) :
            \E r \in RngStates :
                /\ PlanBuilt(i, r).status = "ok"
                /\ OnlyAnnotated(circuits[i], PlanBuilt(i, r).circuit)

\* the layer-mapped plan has returned its six descriptions, the third being
\* the annotated hardening circuit
C15_Witness ==
    /\ call.op = "layer_tests"
    /\ outcome = "ok"
    /\ Len(circuits) = 6
    /\ circuits[3].pqe369_layer = 2
    /\ circuits[3].layer_name = "Non-Abelian Innovation"
    /\ circuits[3].description = HardeningDescription
    /\ circuits[3].gates # <<>>

MultiQubitGates == {"cx", "ccx", "cp", "crz", "swap"}

\* C16: whenever a builder returns, every multi-qubit gate (cx, ccx, cp, crz,
\* swap) of the description acts on pairwise distinct qubit indices: no gate
\* has its control equal to its target.
C16_DistinctQubits ==
    Returned =>
        \A k \in GateIndices(circuit) :
            circuit.gates[k].gate \in MultiQubitGates =>
                Cardinality(QubitsOf(circuit.gates[k])) = Len(circuit.gates[k].qubits)

DigestKeys == {"seed", "ciphertext_hash", "hardened_ciphertext_hash", "combined_hash"}

DataDrivenDescriptions == {RandomnessDescription, HardeningDescription, KemDescription}

\* gate lists a and b differ at most in the angles of their rz gates
SameGatesUpToRz(a, b) ==
    /\ Len(a) = Len(b)
    /\ \A k \in 1..Len(a) :
          /\ a[k].gate = b[k].gate
          /\ a[k].qubits = b[k].qubits
          /\ a[k].gate # "rz" => a[k].angle = b[k].angle

\* descriptions a and b of two runs of the same batch position differ at most
\* in rz angles and in the metadata derived from the digest; a circuit that is
\* not data-driven has the same gates in both, and only its drawn seed differs
SameUpToSample(a, b) ==
    /\ a.description = b.description
    /\ a.num_qubits = b.num_qubits
    /\ DOMAIN a = DOMAIN b
    /\ \A key \in DOMAIN a \ (DigestKeys \cup {"gates"}) : a[key] = b[key]
    /\ IF a.description \in DataDrivenDescriptions
       THEN SameGatesUpToRz(a.gates, b.gates)
       ELSE a.gates = b.gates

\* C17: whenever the batch plan returns, each randomness circuit built from a
\* 32-byte sample has num_qubits = 2 and no Toffoli, each hardening circuit
\* built from a 64-byte sample has num_qubits = 3, and the output of the same
\* call from any other state of the pseudo-random source has the same length
\* and differs, description by description, at most in rz angles and in the
\* seed and hash-fragment metadata.
C17_BatchShapeIndependentOfSample ==
    (call.op = "batch" /\ outcome = "ok") =>
        /\ \A i \in 1..Len(circuits) :
              /\ (circuits[i].description = RandomnessDescription
                    /\ BatchSampleSize(BatchType(i - 1)) = <<32>>) =>
                      /\ circuits[i].num_qubits = 2
                      /\ CountGates(circuits[i], "ccx") = 0
              /\ (circuits[i].description = HardeningDescription
                    /\ BatchSampleSize(BatchType(i - 1)) = <<64>>) =>
                      circuits[i].num_qubits = 3
        /\ \A r \in RngStates :
              LET other == generate_batch_test_circuits(call.args[1], r)
              IN  /\ other.status = "ok"
                  /\ Len(other.circuits) = Len(circuits)
                  /\ \A i \in 1..Len(circuits) : SameUpToSample(circuits[i], other.circuits[i])

\* a batch of four has returned with a 2-qubit randomness circuit and a
\* 3-qubit hardening circuit, and another state of the source gives the
\* randomness circuit a different rz angle and a different hash fragment
C17_Witness ==
    /\ call.op = "batch"
    /\ outcome = "ok"
    /\ call.args = <<4>>
    /\ samples = <<32, 64, 128, 64>>
    /\ circuits[1].description = RandomnessDescription
    /\ circuits[1].num_qubits = 2
    /\ circuits[2].description = HardeningDescription
    /\ circuits[2].num_qubits = 3
    /\ \E r \in RngStates :
          LET other == generate_batch_test_circuits(4, r).circuits[1]
          IN  /\ other.ciphertext_hash # circuits[1].ciphertext_hash
              /\ \E k \in 1..Len(other.gates) :
                    /\ other.gates[k].gate = "rz"
                    /\ other.gates[k].angle # circuits[1].gates[k].angle
====
